---- MODULE Spec2Model ----
(***************************************************************************)
(* Model of predictserver.py: a Flask process with three routes.  GET /    *)
(* and GET /health answer a constant; POST /predict reads a JSON body, the *)
(* IST clock, the holiday table and two regression models, and derives a   *)
(* pickup decision.                                                        *)
(*                                                                         *)
(* Numbers.  Python floats are modelled by exact rationals.  Fill levels   *)
(* are integers (percent), fill rates are integers counted in units of     *)
(* 1/RATE_SCALE percent per hour, hours are fractions [num, den].  NaN and *)
(* the infinities, which float() also accepts, are outside the model.      *)
(*                                                                         *)
(* Text.  A holiday name is a sequence of one-character strings, so that   *)
(* split, strip, lower and the substring test are computed and not         *)
(* assumed.                                                                *)
(*                                                                         *)
(* Time.  A timestamp is [day, sec, us]: days since 2024-01-01 (a Monday), *)
(* second of the day and microsecond, all in IST.  strftime with a format  *)
(* that has no %f drops the microseconds; the bijection between a day      *)
(* number and its year-month-day text is not spelled out.                  *)
(***************************************************************************)
EXTENDS Integers, Sequences, FiniteSets, TLC

VARIABLES
    G,          \* process-wide state: the module globals set at import
    pc,         \* position of the worker: "idle", "handling", "responded"
    request,    \* the request being served
    frame,      \* the locals of the view function when it returned
    response,   \* the response of the view function
    warm        \* whether the process has answered a request before

vars == <<G, pc, request, frame, response, warm>>

----------------------------------------------------------------------------
(* Configuration, predictserver.py lines 27-29 *)

WET_THRESHOLD == 90
DRY_THRESHOLD == 90
ALERT_LIMIT_HOURS == 2

(* 0.01, the floor of both predicted rates, is MIN_RATE / RATE_SCALE *)
RATE_SCALE == 100
MIN_RATE == 1

----------------------------------------------------------------------------
(* Text helpers: str.lower, str.split(",")[0], str.strip, and `in` *)

(* the letters str.lower and str.upper change; every other character stays *)
LowerOf ==
    [A |-> "a", B |-> "b", C |-> "c", D |-> "d", E |-> "e", F |-> "f", G |-> "g",
     H |-> "h", I |-> "i", J |-> "j", K |-> "k", L |-> "l", M |-> "m", N |-> "n",
     O |-> "o", P |-> "p", Q |-> "q", R |-> "r", S |-> "s", T |-> "t", U |-> "u",
     V |-> "v", W |-> "w", X |-> "x", Y |-> "y", Z |-> "z"]

UpperOf ==
    [a |-> "A", b |-> "B", c |-> "C", d |-> "D", e |-> "E", f |-> "F", g |-> "G",
     h |-> "H", i |-> "I", j |-> "J", k |-> "K", l |-> "L", m |-> "M", n |-> "N",
     o |-> "O", p |-> "P", q |-> "Q", r |-> "R", s |-> "S", t |-> "T", u |-> "U",
     v |-> "V", w |-> "W", x |-> "X", y |-> "Y", z |-> "Z"]

lower_char(c) == IF c \in DOMAIN LowerOf THEN LowerOf[c] ELSE c

upper_char(c) == IF c \in DOMAIN UpperOf THEN UpperOf[c] ELSE c

lower(s) == [i \in 1..Len(s) |-> lower_char(s[i])]

upper(s) == [i \in 1..Len(s) |-> upper_char(s[i])]

(* s.split(",")[0]: the text before the first comma, all of s without one *)
split_first(s) ==
    IF \E i \in 1..Len(s) : s[i] = ","
    THEN LET k == CHOOSE i \in 1..Len(s) :
                    s[i] = "," /\ \A j \in 1..(i - 1) : s[j] # ","
         IN  SubSeq(s, 1, k - 1)
    ELSE s

(* s.strip(): leading and trailing blanks removed *)
strip(s) ==
    IF \A i \in 1..Len(s) : s[i] = " "
    THEN << >>
    ELSE LET a == CHOOSE i \in 1..Len(s) :
                    s[i] # " " /\ \A j \in 1..(i - 1) : s[j] = " "
             b == CHOOSE i \in 1..Len(s) :
                    s[i] # " " /\ \A j \in (i + 1)..Len(s) : s[j] = " "
         IN  SubSeq(s, a, b)

(* k in s *)
contains(s, k) ==
    \E i \in 0..(Len(s) - Len(k)) : \A j \in 1..Len(k) : s[i + j] = k[j]

----------------------------------------------------------------------------
(* Holiday classification engine, predictserver.py lines 35-94 *)

MAJOR_FESTIVALS ==
    << <<"D", "i", "w", "a", "l", "i">>,
       <<"D", "e", "e", "p", "a", "v", "a", "l", "i">>,
       <<"H", "o", "l", "i">>,
       <<"E", "i", "d">>,
       <<"B", "a", "k", "r", "i", "d">>,
       <<"C", "h", "r", "i", "s", "t", "m", "a", "s">> >>

NATIONAL_HOLIDAYS ==
    << <<"R", "e", "p", "u", "b", "l", "i", "c", " ", "D", "a", "y">>,
       <<"I", "n", "d", "e", "p", "e", "n", "d", "e", "n", "c", "e", " ", "D", "a", "y">>,
       <<"G", "a", "n", "d", "h", "i", " ", "J", "a", "y", "a", "n", "t", "i">> >>

MODERATE_FESTIVALS ==
    << <<"D", "u", "s", "s", "e", "h", "r", "a">>,
       <<"V", "i", "j", "a", "y", "a", "d", "a", "s", "h", "a", "m", "i">>,
       <<"N", "a", "v", "r", "a", "t", "r", "i">>,
       <<"J", "a", "n", "m", "a", "s", "h", "t", "a", "m", "i">>,
       <<"R", "a", "k", "s", "h", "a", " ", "B", "a", "n", "d", "h", "a", "n">>,
       <<"G", "a", "n", "e", "s", "h", " ", "C", "h", "a", "t", "u", "r", "t", "h", "i">>,
       <<"D", "u", "r", "g", "a", " ", "P", "u", "j", "a">>,
       <<"O", "n", "a", "m">>,
       <<"P", "o", "n", "g", "a", "l">>,
       <<"B", "a", "i", "s", "a", "k", "h", "i">> >>

MINOR_RELIGIOUS ==
    << <<"M", "a", "h", "a", "v", "i", "r">>,
       <<"B", "u", "d", "d", "h", "a">>,
       <<"M", "u", "h", "a", "r", "r", "a", "m">>,
       <<"S", "h", "i", "v", "a", "r", "a", "t", "r", "i">>,
       <<"R", "a", "m", " ", "N", "a", "v", "a", "m", "i">>,
       <<"M", "a", "k", "a", "r", " ", "S", "a", "n", "k", "r", "a", "n", "t", "i">> >>

(* Python's None and a present value, in one record shape *)
None == [is_none |-> TRUE, val |-> << >>]

Some(v) == [is_none |-> FALSE, val |-> v]

(* india_holidays.get(current_date): the entry of the table, None without one *)
india_holidays_get(current_date) ==
    IF current_date \in DOMAIN G.india_holidays
    THEN Some(G.india_holidays[current_date])
    ELSE None

(* `keyword.lower() in holiday_name_clean.lower()` for some keyword of a tier *)
tier_matches(tier, holiday_name_clean) ==
    \E i \in 1..Len(tier) : contains(lower(holiday_name_clean), lower(tier[i]))

(* the same with the national tier tested before the major festivals *)
tier_factor_national_first(holiday_name_clean) ==
    IF tier_matches(NATIONAL_HOLIDAYS, holiday_name_clean) THEN 30
    ELSE IF tier_matches(MAJOR_FESTIVALS, holiday_name_clean) THEN 70
    ELSE IF tier_matches(MODERATE_FESTIVALS, holiday_name_clean) THEN 50
    ELSE IF tier_matches(MINOR_RELIGIOUS, holiday_name_clean) THEN 20
    ELSE 25

(* the four loops of get_holiday_factor and its last return; factors in 1/100 *)
tier_factor(holiday_name_clean) ==
    IF tier_matches(MAJOR_FESTIVALS, holiday_name_clean) THEN 70
    ELSE IF tier_matches(NATIONAL_HOLIDAYS, holiday_name_clean) THEN 30
    ELSE IF tier_matches(MODERATE_FESTIVALS, holiday_name_clean) THEN 50
    ELSE IF tier_matches(MINOR_RELIGIOUS, holiday_name_clean) THEN 20
    ELSE 25

(* holiday_name.split(",")[0].strip() *)
clean_name(holiday_name) == strip(split_first(holiday_name))

(* the same without the early return for a date that has no entry *)
get_holiday_factor_fallthrough(current_date) ==
    LET holiday_name == india_holidays_get(current_date)
        holiday_name_clean == clean_name(holiday_name.val)
    IN  [holiday_factor |-> tier_factor(holiday_name_clean),
         is_holiday |-> 1,
         holiday_name |-> Some(holiday_name_clean)]

get_holiday_factor(current_date) ==
    LET holiday_name == india_holidays_get(current_date)
    IN  IF holiday_name.is_none \/ Len(holiday_name.val) = 0
        THEN [holiday_factor |-> 0, is_holiday |-> 0, holiday_name |-> None]
        ELSE LET holiday_name_clean == clean_name(holiday_name.val)
             IN  [holiday_factor |-> tier_factor(holiday_name_clean),
                  is_holiday |-> 1,
                  holiday_name |-> Some(holiday_name_clean)]

----------------------------------------------------------------------------
(* JSON values as request.get_json() returns them.  t is the Python type,  *)
(* n the number (or the length of a list or text), s the text, fields the  *)
(* items of a dict.                                                        *)

JNumber(n) == [t |-> "number", n |-> n, s |-> "", fields |-> << >>]

JNumericText(n) == [t |-> "numeric_text", n |-> n, s |-> ToString(n), fields |-> << >>]

JText(s, len) == [t |-> "text", n |-> len, s |-> s, fields |-> << >>]

JNull == [t |-> "null", n |-> 0, s |-> "", fields |-> << >>]

JList(len) == [t |-> "list", n |-> len, s |-> "", fields |-> << >>]

JObject(fields) == [t |-> "dict", n |-> 0, s |-> "", fields |-> fields]

(* bool(data), as `if not data` tests it *)
truthy(data) ==
    CASE data.t = "dict" -> DOMAIN data.fields # {}
      [] data.t = "null" -> FALSE
      [] data.t = "number" -> data.n # 0
      [] data.t = "numeric_text" -> TRUE
      [] data.t = "text" -> data.n > 0
      [] data.t = "list" -> data.n > 0

(* data.get(key, default); only a dict has the method *)
dict_get(data, key, default) ==
    IF key \in DOMAIN data.fields THEN data.fields[key] ELSE default

(* float(v): a number or a numeric text converts, None and other text raise *)
float_raises(v) == v.t \notin {"number", "numeric_text"}

float_of(v) == v.n

(* str(v) *)
str_of(v) ==
    CASE v.t = "text" -> v.s
      [] v.t = "numeric_text" -> v.s
      [] v.t = "number" -> ToString(v.n)
      [] v.t = "null" -> "None"
      [] OTHER -> "<object>"

----------------------------------------------------------------------------
(* Exact fractions for the float quotients; den > 0 *)

Frac(num, den) == [num |-> num, den |-> den]

(* a <= b; whole parts first, so that no product leaves the integer range *)
frac_leq(a, b) ==
    LET fa == a.num \div a.den
        fb == b.num \div b.den
    IN  IF fa # fb
        THEN fa < fb
        ELSE (a.num % a.den) * b.den <= (b.num % b.den) * a.den

frac_eq(a, b) == frac_leq(a, b) /\ frac_leq(b, a)

frac_lt(a, b) == ~frac_leq(b, a)

----------------------------------------------------------------------------
(* Time: datetime.now(IST), timedelta, strftime; lines 133-137, 178, 194 *)

(* days from 2024-01-01 to datetime.max, 9999-12-31 *)
MAX_DAY == 2913173

DayNames == <<"Monday", "Tuesday", "Wednesday", "Thursday", "Friday",
              "Saturday", "Sunday">>

(* now.weekday(): 0 is Monday *)
weekday(now) == now.day % 7

(* now.hour *)
hour_of_day(now) == now.sec \div 3600

(* now.strftime("%d-%m-%Y"), now.strftime("%H:%M:%S"), now.strftime("%A") *)
strftime_date(t) == [format |-> "%d-%m-%Y", day |-> t.day]

strftime_time(t) == [format |-> "%H:%M:%S", sec |-> t.sec]

strftime_day_name(t) == DayNames[weekday(t) + 1]

(* pickup_time.strftime("%Y-%m-%d %H:%M:%S") *)
strftime_datetime(t) == [format |-> "%Y-%m-%d %H:%M:%S", day |-> t.day, sec |-> t.sec]

(* now + timedelta(hours = h), h >= 0, cut to whole microseconds; a result *)
(* after datetime.max raises OverflowError                                 *)
add_hours(now, h) ==
    LET whole == h.num \div h.den
        r1 == h.num % h.den
        minutes == (r1 * 60) \div h.den
        r2 == (r1 * 60) % h.den
        seconds == (r2 * 60) \div h.den
        r3 == (r2 * 60) % h.den
        micros == (r3 * 1000000) \div h.den
        us == now.us + micros
        sec == now.sec + (whole % 24) * 3600 + minutes * 60 + seconds
               + (us \div 1000000)
        day == now.day + (whole \div 24) + (sec \div 86400)
    IN  [raised |-> day > MAX_DAY,
         value |-> [day |-> day, sec |-> sec % 86400, us |-> us % 1000000]]

----------------------------------------------------------------------------
(* The decision logic of predict, lines 165-182 *)

(* the raw output used as it comes, without the floor *)
predicted_rate_unfloored(raw) == raw

(* max(float(model.predict(input_df)[0]), 0.01) *)
predicted_rate(raw) == IF MIN_RATE > raw THEN MIN_RATE ELSE raw

(* (threshold - level) / rate: ZeroDivisionError for a zero rate *)
quotient_raises(rate) == rate = 0

quotient(threshold, level, rate) ==
    IF rate > 0
    THEN Frac((threshold - level) * RATE_SCALE, rate)
    ELSE Frac((level - threshold) * RATE_SCALE, 0 - rate)

(* the quotient used as it comes, without the clamp *)
max_zero_absent(q) == q

(* max(q, 0) *)
max_zero(q) == IF 0 > q.num THEN Frac(0, 1) ELSE q

(* the same measured against a full bin instead of the threshold *)
hours_remaining_full(threshold, level, rate) ==
    max_zero(quotient(100, level, rate))

(* max((threshold - level) / rate, 0) *)
hours_remaining(threshold, level, rate) ==
    max_zero(quotient(threshold, level, rate))

(* the same with < for <=: a tie goes to dry *)
select_bin_strict(wet_hours, dry_hours) ==
    IF frac_lt(wet_hours, dry_hours) THEN "wet" ELSE "dry"

(* if wet_hours <= dry_hours: "wet" else "dry" *)
select_bin(wet_hours, dry_hours) ==
    IF frac_leq(wet_hours, dry_hours) THEN "wet" ELSE "dry"

select_hours(wet_hours, dry_hours) ==
    IF frac_leq(wet_hours, dry_hours) THEN wet_hours ELSE dry_hours

(* the same with < for <= *)
pickup_required_strict(final_hours) ==
    final_hours.num < G.ALERT_LIMIT_HOURS * final_hours.den

(* bool(final_hours <= ALERT_LIMIT_HOURS) *)
pickup_required(final_hours) ==
    final_hours.num <= G.ALERT_LIMIT_HOURS * final_hours.den

----------------------------------------------------------------------------
(* The view functions, lines 101-207 *)

NoRequest == [method |-> "", route |-> ""]

NoFrame == [at |-> ""]

NoResponse == [status |-> 0]

(* return jsonify({"error": message}), status; the frame records where *)
error_result(status, message, at) ==
    [frame |-> [at |-> at],
     response |-> [status |-> status, payload |-> [error |-> message]]]

(* home() *)
home == [status |-> 200, payload |-> [text |-> "Smart Dustbin ML Backend Running"]]

(* health() *)
health == [status |-> 200, payload |-> [status |-> "healthy"]]

(* request.get_json(): the outcomes the installed Flask can produce.  A    *)
(* body that is no JSON text raises BadRequest; a request without a JSON   *)
(* content type gives None in older releases and raises in newer ones.     *)
get_json(req) ==
    IF ~req.is_json
    THEN {[raised |-> FALSE, data |-> JNull, error |-> ""],
          [raised |-> TRUE, data |-> JNull, error |-> "415 Unsupported Media Type"]}
    ELSE IF req.body.kind # "json"
    THEN {[raised |-> TRUE, data |-> JNull, error |-> "400 Bad Request"]}
    ELSE {[raised |-> FALSE, data |-> req.body.data, error |-> ""]}

(* the dict handed to jsonify at lines 187-204 *)
response_payload(f) ==
    [selected_bin_for_pickup |-> f.selected_bin,
     wet_predicted_rate |-> f.wet_rate,
     dry_predicted_rate |-> f.dry_rate,
     wet_hours_remaining |-> f.wet_hours,
     dry_hours_remaining |-> f.dry_hours,
     final_hours_remaining |-> f.final_hours,
     next_pickup_datetime |-> strftime_datetime(f.pickup_time),
     pickup_required_immediately |-> f.pickup_required_immediately,
     is_holiday_today |-> f.is_holiday # 0,
     holiday_name |-> IF f.holiday_name.is_none \/ Len(f.holiday_name.val) = 0
                      THEN None ELSE f.holiday_name,
     holiday_factor_used |-> f.holiday_factor,
     current_date |-> f.current_date_str,
     current_time |-> f.current_time_str,
     day_name |-> f.day_name_str]

(* lines 165-204, once both models have answered *)
predict_decide(f, wet_raw, dry_raw) ==
    LET wet_rate == predicted_rate(wet_raw)
        dry_rate == predicted_rate(dry_raw)
    IN  IF quotient_raises(wet_rate) \/ quotient_raises(dry_rate)
        THEN error_result(500, "float division by zero", "hours")
        ELSE
        LET wet_hours == hours_remaining(G.WET_THRESHOLD, f.wet_level, wet_rate)
            dry_hours == hours_remaining(G.DRY_THRESHOLD, f.dry_level, dry_rate)
            selected_bin == select_bin(wet_hours, dry_hours)
            final_hours == select_hours(wet_hours, dry_hours)
            pickup_time == add_hours(f.now, final_hours)
        IN  IF pickup_time.raised
            THEN error_result(500, "date value out of range", "pickup_time")
            ELSE
            LET done == [at |-> "return",
                         wet_raw |-> wet_raw, dry_raw |-> dry_raw,
                         wet_rate |-> wet_rate, dry_rate |-> dry_rate,
                         wet_hours |-> wet_hours, dry_hours |-> dry_hours,
                         selected_bin |-> selected_bin,
                         final_hours |-> final_hours,
                         pickup_time |-> pickup_time.value,
                         pickup_required_immediately |-> pickup_required(final_hours)]
                        @@ f
            IN  [frame |-> done,
                 response |-> [status |-> 200, payload |-> response_payload(done)]]

(* lines 133-166: the clock, the holiday engine, the feature row, the models *)
predict_features(f, now, wet_out, dry_out) ==
    LET h == get_holiday_factor(now.day)
        is_weekend == IF weekday(now) >= 5 THEN 1 ELSE 0
        input_df == [hour_of_day |-> hour_of_day(now),
                     day_of_week |-> weekday(now),
                     is_weekend |-> is_weekend,
                     holiday_factor |-> h.holiday_factor,
                     is_holiday |-> h.is_holiday,
                     weather_condition |-> f.weather_condition,
                     wet_level |-> f.wet_level,
                     dry_level |-> f.dry_level,
                     avg_fill_rate_last_3h |-> f.avg_fill_rate_last_3h,
                     previous_day_same_time_level |-> f.previous_day_same_time_level]
        g == [now |-> now,
              current_date_str |-> strftime_date(now),
              current_time_str |-> strftime_time(now),
              day_name_str |-> strftime_day_name(now),
              holiday_factor |-> h.holiday_factor,
              is_holiday |-> h.is_holiday,
              holiday_name |-> h.holiday_name,
              input_df |-> input_df] @@ f
    IN  IF wet_out.raised
        THEN error_result(500, "wet_model.predict", "wet_model.predict")
        ELSE IF dry_out.raised
        THEN error_result(500, "dry_model.predict", "dry_model.predict")
        ELSE predict_decide(g, wet_out.val, dry_out.val)

(* predict(): json is the outcome of get_json, now the clock reading,      *)
(* wet_out and dry_out what the two models do with the feature row         *)
predict(json, now, wet_out, dry_out) ==
    IF json.raised
    THEN error_result(500, json.error, "get_json")
    ELSE
    LET data == json.data
    IN  IF ~truthy(data)
        THEN error_result(400, "Invalid JSON", "not data")
        ELSE IF data.t # "dict"
        THEN error_result(500, "object has no attribute 'get'", "data.get")
        ELSE
        LET wet_level == dict_get(data, "wet_level", JNumber(0))
            dry_level == dict_get(data, "dry_level", JNumber(0))
            avg_fill_rate_last_3h == dict_get(data, "avg_fill_rate_last_3h", JNumber(0))
            previous_day_same_time_level ==
                dict_get(data, "previous_day_same_time_level", JNumber(0))
            weather_condition == dict_get(data, "weather_condition", JText("normal", 6))
        IN  IF \/ float_raises(wet_level)
               \/ float_raises(dry_level)
               \/ float_raises(avg_fill_rate_last_3h)
               \/ float_raises(previous_day_same_time_level)
            THEN error_result(500, "float() argument", "float")
            ELSE predict_features(
                     [data |-> data,
                      wet_level |-> float_of(wet_level),
                      dry_level |-> float_of(dry_level),
                      avg_fill_rate_last_3h |-> float_of(avg_fill_rate_last_3h),
                      previous_day_same_time_level |->
                          float_of(previous_day_same_time_level),
                      weather_condition |-> str_of(weather_condition)],
                     now, wet_out, dry_out)

(* a view function that lowers the wet threshold for the requests after it *)
globals_after_recalibrated(g) == [g EXCEPT !.WET_THRESHOLD = 80]

(* none of the view functions assigns a module global *)
globals_after(g) == g

----------------------------------------------------------------------------
(* Bounds and input sets *)

MaxLevelSteps == 2
MaxRateSteps == 2

(* fill levels: a grid, the threshold and its neighbours, a negative level *)
(* and one so low that the pickup time passes datetime.max                 *)
Levels ==
    {i * 44 : i \in 0..MaxLevelSteps} \cup {0 - 700000, 0 - 10, 89, 90, 95}

(* raw model outputs in 1/RATE_SCALE: negative, zero, the floor, a grid *)
RawOutputs == {0 - 100, 0, 1} \cup {i * 50 : i \in 1..MaxRateSteps}

(* what a model does with a feature row: a value, or an exception *)
ModelOutcomes ==
    {[raised |-> TRUE, val |-> 0]} \cup {[raised |-> FALSE, val |-> r] : r \in RawOutputs}

Keys == {"wet_level", "dry_level", "avg_fill_rate_last_3h",
         "previous_day_same_time_level", "weather_condition"}

Missing == [t |-> "missing", n |-> 0, s |-> "", fields |-> << >>]

LevelValues ==
    {JNumber(l) : l \in Levels} \cup {JNumericText(88), JText("abc", 3), JNull, Missing}

json_object(w, d, a, p, c) ==
    LET full == [k \in Keys |->
                    CASE k = "wet_level" -> w
                      [] k = "dry_level" -> d
                      [] k = "avg_fill_rate_last_3h" -> a
                      [] k = "previous_day_same_time_level" -> p
                      [] k = "weather_condition" -> c]
        present == {k \in Keys : full[k] # Missing}
    IN  JObject([k \in present |-> full[k]])

(* the three fields that only feed the models: absent, present, one not a number *)
OtherFields ==
    {<<Missing, Missing, Missing>>,
     <<JNumber(3), JNumber(40), JText("rainy", 5)>>,
     <<JNumber(3), JText("abc", 3), Missing>>}

JsonObjects ==
    {json_object(w, d, o[1], o[2], o[3]) :
        w \in LevelValues, d \in LevelValues, o \in OtherFields}

JsonOthers ==
    {JNull, JNumber(0), JNumber(5), JList(0), JList(1), JText("", 0), JText("abc", 3)}

Request(method, route, is_json, kind, data) ==
    [method |-> method, route |-> route, is_json |-> is_json,
     body |-> [kind |-> kind, data |-> data]]

PredictRequests ==
    {Request("POST", "/predict", TRUE, "json", d) : d \in JsonObjects \cup JsonOthers}
    \cup {Request("POST", "/predict", j, k, JNull) :
            j \in BOOLEAN, k \in {"empty", "malformed"}}
    \cup {Request("POST", "/predict", FALSE, "json", JObject(<< >>))}

Instant(day, sec, us) == [day |-> day, sec |-> sec, us |-> us]

(* clock readings: a working day, a Saturday at the last microsecond, three *)
(* days with a table entry, and a day after the years of the table          *)
Instants ==
    {Instant(2, 36000, 0), Instant(5, 86399, 999999), Instant(25, 0, 500000),
     Instant(88, 45296, 1), Instant(305, 64800, 250000), Instant(2200, 3600, 0)}

REPUBLIC == <<"R", "e", "p", "u", "b", "l", "i", "c", " ", "D", "a", "y">>

GOODFRIDAY == <<"G", "o", "o", "d", " ", "F", "r", "i", "d", "a", "y">>

DIWALI == <<"D", "i", "w", "a", "l", "i", ",", " ", "G", "o", "v", "a", "r", "d", "h", "a", "n", " ", "P", "u", "j", "a">>

(* entries of holidays.India(years = range(2024, 2030)) on the days above *)
ServerTable ==
    (25 :> REPUBLIC) @@ (88 :> GOODFRIDAY) @@ (305 :> DIWALI)

InitialGlobals(table) ==
    [wet_model |-> "wet_model.pkl",
     dry_model |-> "dry_model.pkl",
     IST |-> "Asia/Kolkata",
     india_holidays |-> table,
     WET_THRESHOLD |-> WET_THRESHOLD,
     DRY_THRESHOLD |-> DRY_THRESHOLD,
     ALERT_LIMIT_HOURS |-> ALERT_LIMIT_HOURS]

----------------------------------------------------------------------------
(* Actions: a request arrives, its view function runs, the response leaves *)

Receive(req) ==
    /\ pc = "idle"
    /\ pc' = "handling"
    /\ request' = req
    /\ UNCHANGED <<G, frame, response, warm>>

ReceiveHome == Receive(Request("GET", "/", FALSE, "empty", JNull))

ReceiveHealth == Receive(Request("GET", "/health", FALSE, "empty", JNull))

ReceivePredict(requests) == \E req \in requests : Receive(req)

HandleHome ==
    /\ pc = "handling"
    /\ request.route = "/"
    /\ pc' = "responded"
    /\ response' = home
    /\ G' = globals_after(G)
    /\ UNCHANGED <<request, frame, warm>>

HandleHealth ==
    /\ pc = "handling"
    /\ request.route = "/health"
    /\ pc' = "responded"
    /\ response' = health
    /\ G' = globals_after(G)
    /\ UNCHANGED <<request, frame, warm>>

HandlePredict(instants, outcomes) ==
    /\ pc = "handling"
    /\ request.route = "/predict"
    /\ \E json \in get_json(request), now \in instants,
          wet_out \in outcomes, dry_out \in outcomes :
            LET r == predict(json, now, wet_out, dry_out)
            IN  /\ frame' = r.frame
                /\ response' = r.response
    /\ pc' = "responded"
    /\ G' = globals_after(G)
    /\ UNCHANGED <<request, warm>>

Return ==
    /\ pc = "responded"
    /\ pc' = "idle"
    /\ request' = NoRequest
    /\ frame' = NoFrame
    /\ response' = NoResponse
    /\ warm' = TRUE
    /\ UNCHANGED G

Init ==
    /\ G = InitialGlobals(ServerTable)
    /\ pc = "idle"
    /\ request = NoRequest
    /\ frame = NoFrame
    /\ response = NoResponse
    /\ warm = FALSE

Next ==
    \/ ReceiveHome
    \/ ReceiveHealth
    \/ ReceivePredict(PredictRequests)
    \/ HandleHome
    \/ HandleHealth
    \/ HandlePredict(Instants, ModelOutcomes)
    \/ Return

Spec == Init /\ [][Next]_vars

----------------------------------------------------------------------------
(* The holiday engine over many table entries.  The process starts with a  *)
(* table that holds one entry, on day 0, and serves /predict on day 0 and  *)
(* on day 1, which has no entry.                                           *)

GOVARDHAN_AFTER == <<",", " ", "G", "o", "v", "a", "r", "d", "h", "a", "n", " ", "P", "u", "j", "a">>

GOVARDHAN_BEFORE == <<"G", "o", "v", "a", "r", "d", "h", "a", "n", " ", "P", "u", "j", "a", ",", " ">>

BANKHOLIDAY == <<"B", "a", "n", "k", " ", "H", "o", "l", "i", "d", "a", "y">>

GURUNANAK == <<"G", "u", "r", "u", " ", "N", "a", "n", "a", "k", " ", "J", "a", "y", "a", "n", "t", "i">>

Keywords(tier) == {tier[i] : i \in 1..Len(tier)}

Cores ==
    Keywords(MAJOR_FESTIVALS) \cup Keywords(NATIONAL_HOLIDAYS)
    \cup Keywords(MODERATE_FESTIVALS) \cup Keywords(MINOR_RELIGIOUS)
    \cup {GOODFRIDAY, BANKHOLIDAY, GURUNANAK}

(* a name alone, followed or preceded by a second label after a comma, *)
(* padded with blanks, and joined to another name without a comma      *)
Framings(c) ==
    {c, c \o GOVARDHAN_AFTER, GOVARDHAN_BEFORE \o c, <<" ", " ">> \o c \o <<" ">>}
    \cup {c \o <<" ", "/", " ">> \o d : d \in Cores}

HolidayNames ==
    UNION {{n, lower(n), upper(n)} : n \in UNION {Framings(c) : c \in Cores}}

HolidayRequests ==
    {Request("POST", "/predict", TRUE, "json",
             json_object(JNumber(0), Missing, Missing, Missing, Missing))}

HolidayInstants == {Instant(0, 32400, 0), Instant(1, 32400, 0)}

HolidayOutcomes == {[raised |-> FALSE, val |-> 100]}

HolidayInit ==
    /\ G \in {InitialGlobals(0 :> n) : n \in HolidayNames}
    /\ pc = "idle"
    /\ request = NoRequest
    /\ frame = NoFrame
    /\ response = NoResponse
    /\ warm = FALSE

HolidayNext ==
    \/ ReceivePredict(HolidayRequests)
    \/ HandlePredict(HolidayInstants, HolidayOutcomes)
    \/ Return

HolidaySpec == HolidayInit /\ [][HolidayNext]_vars

----------------------------------------------------------------------------
(* Properties *)

Answered == pc = "responded" /\ request.route = "/predict"

Succeeded == Answered /\ response.status = 200

EmptyObjectBody ==
    /\ request.is_json
    /\ request.body.kind = "json"
    /\ request.body.data = JObject(<< >>)

(* C1: POST /predict with the body {} is answered with the full prediction  *)
(* result, computed from the defaults (numeric inputs 0, weather "normal"); *)
(* with both rates at the 0.01 floor both hours-remaining are 8900.         *)
C1_EmptyObjectSucceeds ==
    (Answered /\ EmptyObjectBody) =>
        /\ response.status = 200
        /\ frame.wet_level = 0
        /\ frame.dry_level = 0
        /\ frame.avg_fill_rate_last_3h = 0
        /\ frame.previous_day_same_time_level = 0
        /\ frame.weather_condition = "normal"
        /\ (frame.wet_rate = MIN_RATE /\ frame.dry_rate = MIN_RATE) =>
              /\ response.payload.wet_hours_remaining.num
                    = 8900 * response.payload.wet_hours_remaining.den
              /\ response.payload.dry_hours_remaining.num
                    = 8900 * response.payload.dry_hours_remaining.den

(* C2: a POST /predict whose body is absent or is not valid JSON is answered *)
(* with 400 and {"error": "Invalid JSON"}, never with 500 or a success.      *)
C2_InvalidBodyIs400 ==
    (Answered /\ request.body.kind \in {"empty", "malformed"}) =>
        /\ response.status = 400
        /\ response.payload.error = "Invalid JSON"

(* C3: in a successful response the selected bin is the one with the smaller *)
(* hours-remaining, final_hours_remaining is the minimum of the two, a tie   *)
(* selects "wet", and "dry" is selected only when dry is strictly smaller.   *)
C3_SelectsSmaller ==
    Succeeded =>
        LET p == response.payload
            wet == p.wet_hours_remaining
            dry == p.dry_hours_remaining
            final == p.final_hours_remaining
        IN  /\ p.selected_bin_for_pickup \in {"wet", "dry"}
            /\ frac_leq(final, wet) /\ frac_leq(final, dry)
            /\ frac_eq(final, wet) \/ frac_eq(final, dry)
            /\ p.selected_bin_for_pickup = "wet" => frac_eq(final, wet)
            /\ p.selected_bin_for_pickup = "dry" => frac_eq(final, dry)
            /\ frac_eq(wet, dry) => p.selected_bin_for_pickup = "wet"
            /\ p.selected_bin_for_pickup = "dry" => frac_lt(dry, wet)

C3_Witness ==
    /\ Succeeded
    /\ frame.wet_level = 0
    /\ frame.dry_level = 0
    /\ frame.wet_rate = frame.dry_rate
    /\ response.payload.selected_bin_for_pickup = "wet"

(* C4: wet, dry and final hours-remaining of a successful response are never *)
(* negative, also when a level is above the threshold of 90.                 *)
C4_HoursNeverNegative ==
    Succeeded =>
        LET p == response.payload
        IN  \A h \in {p.wet_hours_remaining, p.dry_hours_remaining,
                      p.final_hours_remaining} :
                h.den > 0 /\ h.num >= 0

C4_Witness ==
    /\ Succeeded
    /\ frame.wet_level > 90
    /\ frame.dry_level < 90
    /\ response.payload.wet_hours_remaining.num = 0
    /\ response.payload.dry_hours_remaining.num > 0

(* C5: whatever the models return, zero and negative outputs included, the  *)
(* rate that divides and that is reported is at least 0.01, so the division *)
(* is never by zero or by a negative number.                                *)
C5_RateAtLeastFloor ==
    Answered =>
        /\ frame.at # "hours"
        /\ response.status = 200 =>
              /\ response.payload.wet_predicted_rate >= 1
              /\ response.payload.dry_predicted_rate >= 1
              /\ frame.wet_hours.den >= 1
              /\ frame.dry_hours.den >= 1

C5_Witness ==
    /\ Succeeded
    /\ frame.wet_raw < 0
    /\ frame.dry_raw = 0
    /\ response.payload.wet_predicted_rate = 1
    /\ response.payload.dry_predicted_rate = 1

(* C6: in a successful response pickup_required_immediately is true exactly *)
(* when final_hours_remaining <= 2: true at 2, false above.                 *)
C6_UrgentIffAtMostTwo ==
    Succeeded =>
        LET p == response.payload
            final == p.final_hours_remaining
        IN  p.pickup_required_immediately <=> (final.num <= 2 * final.den)

C6_Witness ==
    /\ Succeeded
    /\ response.payload.final_hours_remaining.num
          = 2 * response.payload.final_hours_remaining.den
    /\ response.payload.pickup_required_immediately

(* k occurs in s, letters compared without their case *)
Occurs(k, s) ==
    \E i \in 0..(Len(s) - Len(k)) :
        \A j \in 1..Len(k) : lower_char(s[i + j]) = lower_char(k[j])

InTier(tier, s) == \E i \in 1..Len(tier) : Occurs(tier[i], s)

(* s is the text of name before its first comma, without the blanks around it *)
IsTextBeforeComma(name, s) ==
    LET commas == {i \in 1..Len(name) : name[i] = ","}
        n == IF commas = {} THEN Len(name)
             ELSE (CHOOSE i \in commas : \A j \in commas : i <= j) - 1
    IN  /\ \A i \in 1..Len(s) : s[i] # ","
        /\ Len(s) > 0 => s[1] # " " /\ s[Len(s)] # " "
        /\ \E a \in 0..n :
              /\ a + Len(s) <= n
              /\ \A i \in 1..a : name[i] = " "
              /\ \A i \in 1..Len(s) : name[a + i] = s[i]
              /\ \A i \in (a + Len(s) + 1)..n : name[i] = " "

(* C7: for a date with a table entry get_holiday_factor uses the text before *)
(* the first comma, matches it without case by substring against the tiers   *)
(* major (0.7), national (0.3), moderate (0.5), minor (0.2) in that order,   *)
(* the first matching tier giving the factor and no match giving 0.25, with  *)
(* is_holiday true; "Diwali, Govardhan Puja" gives 0.7, true and "Diwali".   *)
C7_FirstTierWins ==
    (Succeeded /\ frame.now.day \in DOMAIN G.india_holidays) =>
        LET name == G.india_holidays[frame.now.day]
            s == frame.holiday_name.val
        IN  /\ frame.is_holiday = 1
            /\ response.payload.is_holiday_today
            /\ ~frame.holiday_name.is_none
            /\ IsTextBeforeComma(name, s)
            /\ InTier(MAJOR_FESTIVALS, s) => frame.holiday_factor = 70
            /\ (~InTier(MAJOR_FESTIVALS, s) /\ InTier(NATIONAL_HOLIDAYS, s))
                  => frame.holiday_factor = 30
            /\ (/\ ~InTier(MAJOR_FESTIVALS, s)
                /\ ~InTier(NATIONAL_HOLIDAYS, s)
                /\ InTier(MODERATE_FESTIVALS, s)) => frame.holiday_factor = 50
            /\ (/\ ~InTier(MAJOR_FESTIVALS, s)
                /\ ~InTier(NATIONAL_HOLIDAYS, s)
                /\ ~InTier(MODERATE_FESTIVALS, s)
                /\ InTier(MINOR_RELIGIOUS, s)) => frame.holiday_factor = 20
            /\ (/\ ~InTier(MAJOR_FESTIVALS, s)
                /\ ~InTier(NATIONAL_HOLIDAYS, s)
                /\ ~InTier(MODERATE_FESTIVALS, s)
                /\ ~InTier(MINOR_RELIGIOUS, s)) => frame.holiday_factor = 25
            /\ name = DIWALI =>
                  /\ frame.holiday_factor = 70
                  /\ s = <<"D", "i", "w", "a", "l", "i">>
                  /\ response.payload.holiday_name.val = <<"D", "i", "w", "a", "l", "i">>

C7_Witness ==
    /\ Succeeded
    /\ frame.now.day \in DOMAIN G.india_holidays
    /\ G.india_holidays[frame.now.day] = DIWALI
    /\ frame.holiday_factor = 70
    /\ frame.is_holiday = 1
    /\ frame.holiday_name = Some(<<"D", "i", "w", "a", "l", "i">>)

(* C8: for a date without a table entry get_holiday_factor returns (0.0, not *)
(* a holiday, none) and the response carries holiday_factor_used = 0.0,      *)
(* is_holiday_today = false and holiday_name = null.                         *)
C8_NoEntryPropagates ==
    (Succeeded /\ frame.now.day \notin DOMAIN G.india_holidays) =>
        /\ frame.holiday_factor = 0
        /\ frame.is_holiday = 0
        /\ frame.holiday_name = None
        /\ frame.input_df.holiday_factor = 0
        /\ frame.input_df.is_holiday = 0
        /\ response.payload.holiday_factor_used = 0
        /\ response.payload.is_holiday_today = FALSE
        /\ response.payload.holiday_name = None

C8_Witness ==
    /\ Succeeded
    /\ frame.now.day \notin DOMAIN G.india_holidays
    /\ response.payload.holiday_factor_used = 0
    /\ response.payload.is_holiday_today = FALSE
    /\ response.payload.holiday_name = None

C10_AtThresholdIsImmediate ==
    (Succeeded /\ (frame.wet_level >= 90 \/ frame.dry_level >= 90)) =>
        LET p == response.payload
        IN  /\ p.final_hours_remaining.num = 0
            /\ p.pickup_required_immediately
            /\ p.next_pickup_datetime = strftime_datetime(frame.now)
            /\ frame.wet_level >= 90 => p.selected_bin_for_pickup = "wet"

C10_Witness ==
    /\ Succeeded
    /\ frame.wet_level >= 90
    /\ frame.dry_level > 90
    /\ frame.wet_raw < 0
    /\ response.payload.selected_bin_for_pickup = "wet"
    /\ response.payload.final_hours_remaining.num = 0

====
